---- MODULE Spec2Model ----
(***************************************************************************)
(* AR distance measurement: HitTestManager and MeasurementHelper (the      *)
(* helper classes) and the page script app.js that drives them.            *)
(***************************************************************************)
EXTENDS Integers, Sequences, FiniteSets, TLC

\* ---------------------------------------------------------------- bounds
\* Positions are points on one axis, counted in sixteenths of a metre (every
\* such length, times 100, is a number a double holds exactly): the whole
\* metres 0..MaxCoord and the point one sixteenth of a metre from the origin.
MaxCoord == 1
\* Number of scene primitives (markers, labels, lines) that may be alive.
MaxPrims == 7
\* Number of requestHitTestSource invocations made on a HitTestManager that
\* is used on its own.
MaxCalls == 2
\* Number of startAR invocations (clicks on the start button).
MaxStarts == 1
\* Number of ranked intersections a frame may report.
MaxHits == 2

Positions == {0, 1} \cup {16 * k : k \in 1..MaxCoord}
PrimIds == 1..MaxPrims
Calls == 1..MaxCalls
Starts == 1..MaxStarts
\* One slot per invocation of requestHitTestSource, whoever makes it.
Slots == 1..(IF MaxCalls >= MaxStarts THEN MaxCalls ELSE MaxStarts)

VARIABLES
    \* MeasurementHelper
    points,         \* this.points: sequence of positions
    markers,        \* this.markers: sequence of marker and label primitives
    lineSegments,   \* this.lineSegments: sequence of line primitives
    scene,          \* ids of the primitives this helper has in the scene
    \* HitTestManager
    hitTestSource,           \* 0 = null, otherwise the id of the source
    hitTestSourceRequested,  \* this.hitTestSourceRequested
    hitResults,              \* this.hitResults: sequence of 0 or 1 results
    reqPc,          \* per invocation of requestHitTestSource: where it is
    cancelCount,    \* per source object: number of cancel() calls it received
    \* app.js
    measuring,          \* let measuring
    distanceValue,      \* distanceValue.textContent, in hundredths of a cm
    measureLabel,       \* measureButton.textContent
    startARDisabled,    \* startARButton.disabled
    measureDisabled,    \* measureButton.disabled
    resetDisabled,      \* resetButton.disabled
    unsupportedShown,   \* unsupportedMessage is not hidden
    supportCheck,       \* checkXRSupport: "pending" until its promise settles
    arPc,               \* per invocation of startAR: where it is
    xrSession,          \* per invocation of startAR: the session it obtained
    endListener,        \* invocations whose session has the 'end' listener
    animationLoop,      \* renderer.setAnimationLoop(render) was called
    \* observation
    frameHit,       \* what the most recent rendered frame gave: its poll
                    \* result, or nothing when it had no snapshot
    trace           \* the last two methods called on a helper that is used
                    \* on its own, oldest first

mhVars == <<points, markers, lineSegments, scene>>
htVars == <<hitTestSource, hitTestSourceRequested, hitResults, reqPc, cancelCount>>
uiVars == <<distanceValue, measureLabel, startARDisabled, measureDisabled,
            resetDisabled, unsupportedShown>>
arVars == <<supportCheck, arPc, xrSession, endListener, animationLoop>>
appVars == <<measuring, distanceValue, measureLabel, startARDisabled, measureDisabled,
             resetDisabled, unsupportedShown,
             supportCheck, arPc, xrSession, endListener, animationLoop, frameHit>>
vars == <<points, markers, lineSegments, scene,
          hitTestSource, hitTestSourceRequested, hitResults, reqPc, cancelCount,
          measuring, distanceValue, measureLabel, startARDisabled, measureDisabled,
          resetDisabled, unsupportedShown,
          supportCheck, arPc, xrSession, endListener, animationLoop,
          frameHit, trace>>

\* The operation `op` has just run.
Ran(op) == trace' = <<trace[2], op>>

\* ------------------------------------------------------ Spatial primitives
\* Vector3.distanceTo for two points on one axis, in sixteenths of a metre.
distanceTo(p1, p2) == IF p1 >= p2 THEN p1 - p2 ELSE p2 - p1

\* toFixed(1) that cuts the second decimal off instead of rounding.
toFixed1_Truncates(distance) == (125 * distance) \div 2

\* (distance * 100).toFixed(1): the distance is distance/16 m, that is
\* 6.25 * distance cm; the result is the number n of tenths of a centimetre
\* nearest to it, the larger n of two equally near ones.
toFixed1(distance) == (125 * distance + 1) \div 2

\* (distance * 100).toFixed(2): 6.25 * distance cm has two decimals, so the
\* result is exact; held as the number of hundredths of a centimetre.
toFixed2(distance) == 625 * distance

\* A new object: the smallest id no live primitive carries.
NewId(used) == CHOOSE n \in PrimIds : n \notin used /\ \A m \in 1..(n - 1) : m \in used

Last(s) == s[Len(s)]
Front(s) == SubSeq(s, 1, Len(s) - 1)
Ids(s) == {s[i].id : i \in 1..Len(s)}

\* ------------------------------------------------------- MeasurementHelper
\* new THREE.Mesh(markerGeometry, markerMaterial) at a point
Marker(id, point) == [id |-> id, kind |-> "marker", at |-> 2 * point, text |-> -1]

\* createTextLabel(text, midPoint): the sprite; `at` is twice the coordinate
Label(id, point1, point2) ==
    [id |-> id, kind |-> "label", at |-> point1 + point2,
     text |-> toFixed1(distanceTo(point1, point2))]

\* new THREE.Line between two points
Line(id, point1, point2) == [id |-> id, kind |-> "line", from |-> point1, to |-> point2]

\* createLineSegment(point1, point2), acting on the state addPoint has built:
\* ms, ls, sc are markers, lineSegments and scene after the marker was added.
createLineSegment(point1, point2, ms, ls, sc) ==
    LET lineId == NewId(sc)
        labelId == NewId(sc \cup {lineId})
    IN  /\ lineSegments' = Append(ls, Line(lineId, point1, point2))
        /\ markers' = Append(ms, Label(labelId, point1, point2))
        /\ scene' = sc \cup {lineId, labelId}

\* addPoint drawing the segment one point late (length >= 3 for >= 2).
addPoint_LateSegment(position) ==
    /\ Cardinality(scene) + 3 <= MaxPrims
    /\ LET pts == Append(points, position)
           markerId == NewId(scene)
           ms == Append(markers, Marker(markerId, position))
           sc == scene \cup {markerId}
       IN  /\ points' = pts
           /\ IF Len(pts) >= 3
              THEN createLineSegment(pts[Len(pts) - 1], pts[Len(pts)], ms, lineSegments, sc)
              ELSE /\ markers' = ms
                   /\ scene' = sc
                   /\ lineSegments' = lineSegments

\* addPoint drawing a segment only for the second point (=== 2 for >= 2).
addPoint_OnlyPair(position) ==
    /\ Cardinality(scene) + 3 <= MaxPrims
    /\ LET pts == Append(points, position)
           markerId == NewId(scene)
           ms == Append(markers, Marker(markerId, position))
           sc == scene \cup {markerId}
       IN  /\ points' = pts
           /\ IF Len(pts) = 2
              THEN createLineSegment(pts[Len(pts) - 1], pts[Len(pts)], ms, lineSegments, sc)
              ELSE /\ markers' = ms
                   /\ scene' = sc
                   /\ lineSegments' = lineSegments

addPoint(position) ==
    /\ Cardinality(scene) + 3 <= MaxPrims
    /\ LET pts == Append(points, position)
           markerId == NewId(scene)
           ms == Append(markers, Marker(markerId, position))
           sc == scene \cup {markerId}
       IN  /\ points' = pts
           /\ IF Len(pts) >= 2
              THEN createLineSegment(pts[Len(pts) - 1], pts[Len(pts)], ms, lineSegments, sc)
              ELSE /\ markers' = ms
                   /\ scene' = sc
                   /\ lineSegments' = lineSegments

\* clear() without the loop that takes the lines out of the scene.
clear_KeepsLines ==
    /\ scene' = scene \ Ids(markers)
    /\ points' = <<>>
    /\ markers' = <<>>
    /\ lineSegments' = <<>>

clear ==
    /\ scene' = (scene \ Ids(markers)) \ Ids(lineSegments)
    /\ points' = <<>>
    /\ markers' = <<>>
    /\ lineSegments' = <<>>

\* removeLastMeasurement without the early return on an empty points.
removeLastMeasurement_NoEarlyReturn ==
    LET popMarker == Len(markers) > 0
        popLine == Len(lineSegments) > 0 /\ Len(points) % 2 = 1
        sc1 == IF popMarker THEN scene \ {Last(markers).id} ELSE scene
    IN  /\ markers' = IF popMarker THEN Front(markers) ELSE markers
        /\ lineSegments' = IF popLine THEN Front(lineSegments) ELSE lineSegments
        /\ scene' = IF popLine THEN sc1 \ {Last(lineSegments).id} ELSE sc1
        /\ points' = Front(points)

removeLastMeasurement ==
    IF Len(points) = 0
    THEN UNCHANGED mhVars
    ELSE LET popMarker == Len(markers) > 0
             popLine == Len(lineSegments) > 0 /\ Len(points) % 2 = 1
             sc1 == IF popMarker THEN scene \ {Last(markers).id} ELSE scene
         IN  /\ markers' = IF popMarker THEN Front(markers) ELSE markers
             /\ lineSegments' = IF popLine THEN Front(lineSegments) ELSE lineSegments
             /\ scene' = IF popLine THEN sc1 \ {Last(lineSegments).id} ELSE sc1
             /\ points' = Front(points)

\* ---------------------------------------------------------- HitTestManager
\* A ranked intersection of a frame: whether hit.getPose(referenceSpace)
\* yields a pose for it and, when it does, the position of that pose.
Hit == [pose : {TRUE}, position : Positions] \cup {[pose |-> FALSE, position |-> 0]}

\* What frame.getHitTestResults(source) may return: up to MaxHits ranked hits.
RECURSIVE SeqsUpTo(_, _)
SeqsUpTo(S, n) ==
    IF n = 0 THEN {<<>>}
    ELSE LET shorter == SeqsUpTo(S, n - 1)
         IN  shorter \cup {Append(q, x) : q \in {r \in shorter : Len(r) = n - 1}, x \in S}
FrameHits == SeqsUpTo(Hit, MaxHits)

\* Where an invocation of requestHitTestSource can have ended.
Finished == {"returned", "warned", "caughtViewerSpace", "caughtSource", "ok"}

\* The invocations that called session.requestHitTestSource (line 26).
Acquisitions == {c \in Slots : reqPc[c] \in {"awaitSource", "caughtSource", "ok"}}

\* The invocations that are between their call and their return.
Outstanding == {c \in Slots : reqPc[c] \in {"awaitViewerSpace", "awaitSource"}}

\* Sources that were acquired, are no longer held and were never cancelled.
Dropped == {c \in Slots : reqPc[c] = "ok" /\ hitTestSource # c /\ cancelCount[c] = 0}

\* requestHitTestSource without the early return on the flag.
requestHitTestSource_NoGuard(c, supportsHitTest) ==
    /\ reqPc[c] = "none"
    /\ reqPc' = [reqPc EXCEPT ![c] =
                    IF ~supportsHitTest THEN "warned" ELSE "awaitViewerSpace"]
    /\ UNCHANGED <<hitTestSource, hitTestSourceRequested, hitResults, cancelCount>>

\* requestHitTestSource up to its first await; supportsHitTest is
\* session.supportedFeatures && session.supportedFeatures.has('hit-test').
requestHitTestSource(c, supportsHitTest) ==
    /\ reqPc[c] = "none"
    /\ reqPc' = [reqPc EXCEPT ![c] =
                    IF hitTestSourceRequested THEN "returned"
                    ELSE IF ~supportsHitTest THEN "warned"
                    ELSE "awaitViewerSpace"]
    /\ UNCHANGED <<hitTestSource, hitTestSourceRequested, hitResults, cancelCount>>

\* session.requestReferenceSpace('viewer') resolves: the invocation goes on
\* to call session.requestHitTestSource and awaits it.
viewerSpaceResolved(c) ==
    /\ reqPc[c] = "awaitViewerSpace"
    /\ reqPc' = [reqPc EXCEPT ![c] = "awaitSource"]
    /\ UNCHANGED <<hitTestSource, hitTestSourceRequested, hitResults, cancelCount>>

\* session.requestReferenceSpace('viewer') rejects: the catch block logs.
viewerSpaceRejected(c) ==
    /\ reqPc[c] = "awaitViewerSpace"
    /\ reqPc' = [reqPc EXCEPT ![c] = "caughtViewerSpace"]
    /\ UNCHANGED <<hitTestSource, hitTestSourceRequested, hitResults, cancelCount>>

\* session.requestHitTestSource resolves with a new source (named after the
\* invocation that asked for it): lines 26 and 30 run without a break.
sourceResolved(c) ==
    /\ reqPc[c] = "awaitSource"
    /\ hitTestSource' = c
    /\ hitTestSourceRequested' = TRUE
    /\ reqPc' = [reqPc EXCEPT ![c] = "ok"]
    /\ UNCHANGED <<hitResults, cancelCount>>

\* session.requestHitTestSource rejects: the catch block logs.
sourceRejected(c) ==
    /\ reqPc[c] = "awaitSource"
    /\ reqPc' = [reqPc EXCEPT ![c] = "caughtSource"]
    /\ UNCHANGED <<hitTestSource, hitTestSourceRequested, hitResults, cancelCount>>

\* getHitTestResults that gives its source up when the frame reports nothing.
getHitTestResults_ForgetsSource(hits) ==
    /\ hitResults' =
          IF hitTestSource = 0 THEN <<>>
          ELSE IF Len(hits) > 0 /\ hits[1].pose
               THEN <<[position |-> hits[1].position]>>
               ELSE <<>>
    /\ hitTestSource' = IF Len(hits) = 0 THEN 0 ELSE hitTestSource
    /\ UNCHANGED <<hitTestSourceRequested, reqPc, cancelCount>>

\* getHitTestResults without the early return when there is no source.
getHitTestResults_NoSourceCheck(hits) ==
    /\ hitResults' =
          IF Len(hits) > 0 /\ hits[1].pose
          THEN <<[position |-> hits[1].position]>>
          ELSE <<>>
    /\ UNCHANGED <<hitTestSource, hitTestSourceRequested, reqPc, cancelCount>>

\* getHitTestResults(frame, referenceSpace); hits is what the frame reports
\* for the source.  Of a result only the position is kept here: rotation and
\* matrix come from the same pose.
getHitTestResults(hits) ==
    /\ hitResults' =
          IF hitTestSource = 0 THEN <<>>
          ELSE IF Len(hits) > 0 /\ hits[1].pose
               THEN <<[position |-> hits[1].position]>>
               ELSE <<>>
    /\ UNCHANGED <<hitTestSource, hitTestSourceRequested, reqPc, cancelCount>>

\* dispose() that cancels the source but keeps the reference to it.
dispose_KeepsSource ==
    /\ IF hitTestSource # 0
       THEN /\ cancelCount' = [cancelCount EXCEPT ![hitTestSource] = @ + 1]
            /\ hitTestSource' = hitTestSource
       ELSE UNCHANGED <<cancelCount, hitTestSource>>
    /\ hitTestSourceRequested' = FALSE
    /\ UNCHANGED <<hitResults, reqPc>>

dispose ==
    /\ IF hitTestSource # 0
       THEN /\ cancelCount' = [cancelCount EXCEPT ![hitTestSource] = @ + 1]
            /\ hitTestSource' = 0
       ELSE UNCHANGED <<cancelCount, hitTestSource>>
    /\ hitTestSourceRequested' = FALSE
    /\ UNCHANGED <<hitResults, reqPc>>

\* ---------------------------------------------------------- Init
Init ==
    /\ points = <<>>
    /\ markers = <<>>
    /\ lineSegments = <<>>
    /\ scene = {}
    /\ hitTestSource = 0
    /\ hitTestSourceRequested = FALSE
    /\ hitResults = <<>>
    /\ reqPc = [c \in Slots |-> "none"]
    /\ cancelCount = [c \in Slots |-> 0]
    /\ measuring = FALSE
    /\ distanceValue = 0
    /\ measureLabel = "measure"
    /\ startARDisabled = FALSE
    /\ measureDisabled = TRUE    \* startAR enables both buttons (lines 110-111)
    /\ resetDisabled = TRUE
    /\ unsupportedShown = FALSE
    /\ supportCheck = "pending"
    /\ arPc = [c \in Starts |-> "none"]
    /\ xrSession = [c \in Starts |-> "none"]
    /\ endListener = {}
    /\ animationLoop = FALSE
    /\ frameHit = <<>>
    /\ trace = <<"new", "new">>

\* ------------------------------------- MeasurementHelper used on its own
AddPoint ==
    \E position \in Positions :
        addPoint(position) /\ Ran("addPoint") /\ UNCHANGED <<htVars, appVars>>
RemoveLastMeasurement ==
    removeLastMeasurement /\ Ran("removeLastMeasurement") /\ UNCHANGED <<htVars, appVars>>
Clear == clear /\ Ran("clear") /\ UNCHANGED <<htVars, appVars>>

NextMH == AddPoint \/ RemoveLastMeasurement \/ Clear
SpecMH == Init /\ [][NextMH]_vars

\* --------------------------------------- HitTestManager used on its own
\* Invocations are numbered in the order they are made.
NextCall(c) == reqPc[c] = "none" /\ \A d \in 1..(c - 1) : reqPc[d] # "none"

RequestHitTestSource ==
    \E c \in Calls, supportsHitTest \in BOOLEAN :
        /\ NextCall(c)
        /\ requestHitTestSource(c, supportsHitTest)
        /\ Ran("requestHitTestSource") /\ UNCHANGED <<mhVars, appVars>>
ViewerSpaceResolved ==
    \E c \in Calls : viewerSpaceResolved(c) /\ Ran("viewerSpaceResolved") /\ UNCHANGED <<mhVars, appVars>>
ViewerSpaceRejected ==
    \E c \in Calls : viewerSpaceRejected(c) /\ Ran("viewerSpaceRejected") /\ UNCHANGED <<mhVars, appVars>>
SourceResolved ==
    \E c \in Calls : sourceResolved(c) /\ Ran("sourceResolved") /\ UNCHANGED <<mhVars, appVars>>
SourceRejected ==
    \E c \in Calls : sourceRejected(c) /\ Ran("sourceRejected") /\ UNCHANGED <<mhVars, appVars>>
GetHitTestResults ==
    \E hits \in FrameHits :
        getHitTestResults(hits) /\ Ran("getHitTestResults") /\ UNCHANGED <<mhVars, appVars>>
Dispose == dispose /\ Ran("dispose") /\ UNCHANGED <<mhVars, appVars>>

NextHT ==
    \/ RequestHitTestSource
    \/ ViewerSpaceResolved
    \/ ViewerSpaceRejected
    \/ SourceResolved
    \/ SourceRejected
    \/ GetHitTestResults
    \/ Dispose
SpecHT == Init /\ [][NextHT]_vars

\* ------------------------------------------------------------------ app.js
showUnsupportedMessage ==
    /\ unsupportedShown' = TRUE
    /\ startARDisabled' = TRUE

\* checkXRSupport: isSessionSupported answers false or fails, or there is no
\* navigator.xr at all.
CheckXRSupportFails ==
    /\ supportCheck = "pending"
    /\ supportCheck' = "settled"
    /\ showUnsupportedMessage
    /\ UNCHANGED trace
    /\ UNCHANGED <<mhVars, htVars, measuring, distanceValue, measureLabel,
                   measureDisabled, resetDisabled,
                   arPc, xrSession, endListener, animationLoop, frameHit>>

\* checkXRSupport: isSessionSupported answers true.
CheckXRSupportOk ==
    /\ supportCheck = "pending"
    /\ supportCheck' = "settled"
    /\ UNCHANGED trace
    /\ UNCHANGED <<mhVars, htVars, measuring, uiVars,
                   arPc, xrSession, endListener, animationLoop, frameHit>>

\* Invocations of startAR are numbered in the order of the clicks.
NextStart(c) == arPc[c] = "none" /\ \A d \in 1..(c - 1) : arPc[d] # "none"

\* A click on the start button: startAR runs up to navigator.xr.requestSession.
StartAR ==
    \E c \in Starts :
        /\ ~startARDisabled
        /\ NextStart(c)
        /\ arPc' = [arPc EXCEPT ![c] = "awaitSession"]
        /\ UNCHANGED trace
        /\ UNCHANGED <<mhVars, htVars, measuring, uiVars, supportCheck,
                       xrSession, endListener, animationLoop, frameHit>>

\* requestSession resolves (the device runs one immersive session at a
\* time); lines 102-104 run and startAR awaits renderer.xr.setSession.
SessionResolved ==
    \E c \in Starts :
        /\ arPc[c] = "awaitSession"
        /\ \A d \in Starts : xrSession[d] # "active"
        /\ xrSession' = [xrSession EXCEPT ![c] = "active"]
        /\ arPc' = [arPc EXCEPT ![c] = "awaitSetSession"]
        /\ UNCHANGED trace
        /\ UNCHANGED <<mhVars, htVars, measuring, uiVars, supportCheck,
                       endListener, animationLoop, frameHit>>

\* A catch block of startAR that only logs.
startARFailed_OnlyLogs(c) ==
    /\ arPc' = [arPc EXCEPT ![c] = "failed"]
    /\ UNCHANGED <<measuring, uiVars, supportCheck, xrSession, endListener,
                   animationLoop, frameHit>>

\* The catch block of startAR.
startARFailed(c) ==
    /\ arPc' = [arPc EXCEPT ![c] = "failed"]
    /\ showUnsupportedMessage
    /\ UNCHANGED <<measuring, distanceValue, measureLabel, measureDisabled,
                   resetDisabled, supportCheck, xrSession, endListener,
                   animationLoop, frameHit>>

\* requestSession rejects.
SessionRejected ==
    \E c \in Starts :
        /\ arPc[c] = "awaitSession"
        /\ startARFailed(c)
        /\ UNCHANGED trace
        /\ UNCHANGED <<mhVars, htVars>>

\* renderer.xr.setSession rejects.
SetSessionRejected ==
    \E c \in Starts :
        /\ arPc[c] = "awaitSetSession"
        /\ startARFailed(c)
        /\ UNCHANGED trace
        /\ UNCHANGED <<mhVars, htVars>>

\* Lines 109-120 of startAR, reached when requestHitTestSource has returned;
\* otherwise startAR stays at its await of it.
startARAfterHitTest(c) ==
    IF reqPc'[c] \in Finished
    THEN /\ startARDisabled' = TRUE
         /\ measureDisabled' = FALSE
         /\ resetDisabled' = FALSE
         /\ endListener' = endListener \cup {c}
         /\ animationLoop' = TRUE
         /\ arPc' = [arPc EXCEPT ![c] = "done"]
         /\ UNCHANGED <<measuring, distanceValue, measureLabel, unsupportedShown,
                        supportCheck, xrSession, frameHit>>
    ELSE /\ arPc' = [arPc EXCEPT ![c] = "awaitHitTest"]
         /\ UNCHANGED <<measuring, uiVars, supportCheck, xrSession, endListener,
                        animationLoop, frameHit>>

\* renderer.xr.setSession resolves: startAR calls requestHitTestSource.
SetSessionResolved ==
    \E c \in Starts, supportsHitTest \in BOOLEAN :
        /\ arPc[c] = "awaitSetSession"
        /\ requestHitTestSource(c, supportsHitTest)
        /\ startARAfterHitTest(c)
        /\ UNCHANGED trace
        /\ UNCHANGED mhVars

\* The awaits inside requestHitTestSource settle while startAR awaits it.
AppViewerSpaceResolved ==
    \E c \in Starts :
        /\ arPc[c] = "awaitHitTest"
        /\ viewerSpaceResolved(c)
        /\ startARAfterHitTest(c)
        /\ UNCHANGED trace
        /\ UNCHANGED mhVars
AppViewerSpaceRejected ==
    \E c \in Starts :
        /\ arPc[c] = "awaitHitTest"
        /\ viewerSpaceRejected(c)
        /\ startARAfterHitTest(c)
        /\ UNCHANGED trace
        /\ UNCHANGED mhVars
AppSourceResolved ==
    \E c \in Starts :
        /\ arPc[c] = "awaitHitTest"
        /\ sourceResolved(c)
        /\ startARAfterHitTest(c)
        /\ UNCHANGED trace
        /\ UNCHANGED mhVars
AppSourceRejected ==
    \E c \in Starts :
        /\ arPc[c] = "awaitHitTest"
        /\ sourceRejected(c)
        /\ startARAfterHitTest(c)
        /\ UNCHANGED trace
        /\ UNCHANGED mhVars

\* The session ends; its 'end' listener, when startAR got as far as
\* registering it, runs.
SessionEnd ==
    \E c \in Starts :
        /\ xrSession[c] = "active"
        /\ xrSession' = [xrSession EXCEPT ![c] = "ended"]
        /\ IF c \in endListener
           THEN /\ startARDisabled' = FALSE
                /\ measureDisabled' = TRUE
                /\ resetDisabled' = TRUE
                /\ dispose
           ELSE UNCHANGED <<startARDisabled, measureDisabled, resetDisabled, htVars>>
        /\ UNCHANGED trace
        /\ UNCHANGED <<mhVars, measuring, distanceValue, measureLabel, unsupportedShown,
                       supportCheck, arPc, endListener, animationLoop, frameHit>>

startMeasuring ==
    /\ measuring' = TRUE
    /\ clear
    /\ measureLabel' = "measuring"
    /\ measureDisabled' = TRUE
    /\ UNCHANGED <<distanceValue, startARDisabled, resetDisabled, unsupportedShown>>

resetMeasuring ==
    /\ measuring' = FALSE
    /\ clear
    /\ distanceValue' = 0
    /\ measureLabel' = "measure"
    /\ measureDisabled' = FALSE
    /\ UNCHANGED <<startARDisabled, resetDisabled, unsupportedShown>>

\* onSelect without the early return when no measurement is in progress.
onSelect_IgnoresMeasuring ==
    IF Len(hitResults) > 0
    THEN /\ addPoint(hitResults[1].position)
         /\ IF Len(points') = 2
            THEN /\ distanceValue' = toFixed2(distanceTo(points'[1], points'[2]))
                 /\ measuring' = FALSE
                 /\ measureLabel' = "again"
                 /\ measureDisabled' = FALSE
            ELSE UNCHANGED <<distanceValue, measuring, measureLabel, measureDisabled>>
         /\ UNCHANGED <<startARDisabled, resetDisabled, unsupportedShown>>
    ELSE UNCHANGED <<mhVars, measuring, uiVars>>

\* onSelect that leaves measuring on after the second point.
onSelect_KeepsMeasuring ==
    IF measuring /\ Len(hitResults) > 0
    THEN /\ addPoint(hitResults[1].position)
         /\ IF Len(points') = 2
            THEN /\ distanceValue' = toFixed2(distanceTo(points'[1], points'[2]))
                 /\ measuring' = measuring
                 /\ measureLabel' = "again"
                 /\ measureDisabled' = FALSE
            ELSE UNCHANGED <<distanceValue, measuring, measureLabel, measureDisabled>>
         /\ UNCHANGED <<startARDisabled, resetDisabled, unsupportedShown>>
    ELSE UNCHANGED <<mhVars, measuring, uiVars>>

onSelect ==
    IF measuring /\ Len(hitResults) > 0
    THEN /\ addPoint(hitResults[1].position)
         /\ IF Len(points') = 2
            THEN /\ distanceValue' = toFixed2(distanceTo(points'[1], points'[2]))
                 /\ measuring' = FALSE
                 /\ measureLabel' = "again"
                 /\ measureDisabled' = FALSE
            ELSE UNCHANGED <<distanceValue, measuring, measureLabel, measureDisabled>>
         /\ UNCHANGED <<startARDisabled, resetDisabled, unsupportedShown>>
    ELSE UNCHANGED <<mhVars, measuring, uiVars>>

\* render(timestamp, frame) for a frame with a snapshot reporting `hits`.
render(hits) == getHitTestResults(hits)

\* A session that is running and attached to the renderer.
Presenting ==
    \E c \in Starts :
        xrSession[c] = "active" /\ arPc[c] \in {"awaitSetSession", "awaitHitTest", "done"}

\* A click on the measure button.
StartMeasuring ==
    /\ ~measureDisabled
    /\ startMeasuring
    /\ UNCHANGED trace
    /\ UNCHANGED <<htVars, arVars, frameHit>>

\* A click on the reset button.
ResetMeasuring ==
    /\ ~resetDisabled
    /\ resetMeasuring
    /\ UNCHANGED trace
    /\ UNCHANGED <<htVars, arVars, frameHit>>

\* The controller's 'select' event.
OnSelect ==
    /\ Presenting
    /\ onSelect
    /\ UNCHANGED trace
    /\ UNCHANGED <<htVars, arVars, frameHit>>

\* The animation loop calls render with a frame of the running session.
RenderFrame ==
    /\ animationLoop
    /\ Presenting
    /\ UNCHANGED trace
    /\ UNCHANGED <<mhVars, measuring, uiVars, arVars>>
    /\ \E hits \in FrameHits :
           /\ render(hits)
           /\ frameHit' = hitResults'

\* The animation loop calls render without a frame: only the scene is drawn.
RenderNoFrame ==
    /\ animationLoop
    /\ frameHit' = <<>>
    /\ UNCHANGED trace
    /\ UNCHANGED <<mhVars, htVars, measuring, uiVars, arVars>>

Next ==
    \/ CheckXRSupportFails
    \/ CheckXRSupportOk
    \/ StartAR
    \/ SessionResolved
    \/ SessionRejected
    \/ SetSessionResolved
    \/ SetSessionRejected
    \/ AppViewerSpaceResolved
    \/ AppViewerSpaceRejected
    \/ AppSourceResolved
    \/ AppSourceRejected
    \/ SessionEnd
    \/ StartMeasuring
    \/ ResetMeasuring
    \/ OnSelect
    \/ RenderFrame
    \/ RenderNoFrame
Spec == Init /\ [][Next]_vars

\* ===================================================== MeasurementHelper
\* Nothing placed: the state after construction or after clear().
Idle == points = <<>> /\ markers = <<>> /\ lineSegments = <<>> /\ scene = {}

\* One point placed on an empty session: one marker at it, nothing else.
OnePointPlaced ==
    /\ Len(points) = 1
    /\ Len(markers) = 1 /\ markers[1].kind = "marker" /\ markers[1].at = 2 * points[1]
    /\ lineSegments = <<>>
    /\ scene = Ids(markers) /\ Cardinality(scene) = 1

\* Two points placed on an empty session: two markers, one line between the
\* two points and its label, all four in the scene.
Completed ==
    /\ Len(points) = 2
    /\ Len(markers) = 3
    /\ markers[1].kind = "marker" /\ markers[2].kind = "marker" /\ markers[3].kind = "label"
    /\ Len(lineSegments) = 1
    /\ lineSegments[1].from = points[1] /\ lineSegments[1].to = points[2]
    /\ scene = Ids(markers) \cup Ids(lineSegments) /\ Cardinality(scene) = 4

\* C1: on an empty session the first addPoint returns 1 (the new length of
\* points) and creates one marker and no segment; the second returns 2 and
\* creates exactly one segment, a line and its label, between the first and
\* the second point: two points and one segment after exactly two calls.
C1_FirstTwoPoints ==
    [][AddPoint =>
        /\ (Idle => OnePointPlaced')
        /\ (OnePointPlaced => Completed' /\ points'[1] = points[1])]_vars

C1_Witness == trace = <<"addPoint", "addPoint">> /\ Completed

\* C2: from Completed (two addPoint calls on an empty session) one
\* removeLastMeasurement leaves exactly 1 point and 0 segments; a second one
\* leaves 0 points and 0 segments.
C2_UndoAfterComplete ==
    [][RemoveLastMeasurement =>
        /\ (Completed => Len(points') = 1 /\ Len(lineSegments') = 0)
        /\ (trace[2] = "removeLastMeasurement" /\ Len(points) = 1
               => Len(points') = 0 /\ Len(lineSegments') = 0)]_vars

\* C3: clear() leaves points, markers and segments empty and none of the
\* helper's primitives in the scene, whatever came before; a second clear()
\* right after it changes nothing.
C3_ClearEmptiesAndIsIdempotent ==
    [][Clear => (Idle' /\ (trace[2] = "clear" => UNCHANGED mhVars))]_vars

C3_Witness == trace = <<"clear", "clear">> /\ Idle

\* ======================================================== HitTestManager
\* C4: a requestHitTestSource made after an earlier one has succeeded, with
\* no dispose since, returns at once: it issues no acquisition and leaves
\* hitTestSource and hitTestSourceRequested as they were.
C4_SecondRequestIsNoOp ==
    [][(RequestHitTestSource /\ hitTestSourceRequested) =>
        /\ UNCHANGED <<hitTestSource, hitTestSourceRequested, hitResults, cancelCount>>
        /\ Acquisitions' = Acquisitions
        /\ Outstanding' = Outstanding
        /\ \E c \in Calls : reqPc[c] = "none" /\ reqPc'[c] = "returned"]_vars

C4_Witness ==
    /\ trace = <<"sourceResolved", "requestHitTestSource">>
    /\ hitTestSourceRequested /\ hitTestSource # 0
    /\ \E c \in Calls : reqPc[c] = "returned"
    /\ Cardinality(Acquisitions) = 1

\* C5: under every interleaving of requestHitTestSource calls and of their
\* completions, a hitTestSource that is set changes only by being cleared
\* (dispose), and no acquired source is let go of without a cancel().
C5_SourceNeverReplaced ==
    [][/\ (hitTestSource # 0 /\ hitTestSource' # hitTestSource => hitTestSource' = 0)
       /\ Dropped' = {}]_vars

\* What the claim C6 expects of a poll of a frame reporting `hits`.
PollResult(hits) ==
    IF ~hitTestSourceRequested \/ Len(hits) = 0 THEN <<>>
    ELSE IF ~hits[1].pose THEN <<>>
    ELSE <<[position |-> hits[1].position]>>

\* C6: getHitTestResults returns nothing while no requestHitTestSource has
\* succeeded (also while one is outstanding), when the frame reports no
\* intersection and when the first one has no pose; otherwise exactly one
\* result, that of the first-ranked intersection.  It never hands the frame
\* a cancelled source, which is what would make the query fail.
C6_PollResult ==
    [][Ran("getHitTestResults") =>
          \A hits \in FrameHits :
              getHitTestResults(hits)
                  => /\ hitResults' = PollResult(hits)
                     /\ Len(hitResults') <= 1
                     /\ (hitTestSource # 0 => cancelCount[hitTestSource] = 0)]_vars

C6_Witness ==
    /\ trace = <<"viewerSpaceResolved", "getHitTestResults">>
    /\ Outstanding # {} /\ ~hitTestSourceRequested
    /\ hitResults = <<>>

\* C7: a requestHitTestSource on a session without the capability issues no
\* acquisition and leaves hitTestSource absent and the flag false; one whose
\* asynchronous step fails ends without an error, with hitTestSource absent
\* and the flag false, so that a later call acquires again.
C7_FailureContained ==
    [][/\ (RequestHitTestSource /\ (\E c \in Calls : reqPc'[c] = "warned" /\ reqPc[c] = "none"))
            => (hitTestSource' = 0 /\ ~hitTestSourceRequested' /\ Acquisitions' = Acquisitions)
       /\ (ViewerSpaceRejected \/ SourceRejected)
            => (hitTestSource' = 0 /\ ~hitTestSourceRequested')]_vars

\* C8: dispose() cancels the source it holds, clears it and resets the flag;
\* a dispose() right after a dispose() changes nothing; no source is ever
\* cancelled twice and a dispose() without a source cancels nothing.
C8_DisposeOnce ==
    /\ [][Dispose =>
            /\ hitTestSource' = 0 /\ ~hitTestSourceRequested'
            /\ (hitTestSource # 0 =>
                   cancelCount' = [cancelCount EXCEPT ![hitTestSource] = @ + 1])
            /\ (hitTestSource = 0 => cancelCount' = cancelCount)
            /\ (trace[2] = "dispose" => UNCHANGED htVars)]_vars
    /\ [](\A c \in Slots : cancelCount[c] <= 1)

C8_Witness ==
    /\ trace = <<"dispose", "dispose">>
    /\ \E c \in Calls : cancelCount[c] = 1 /\ reqPc[c] = "ok"

\* ================================================================ app.js
\* C9: the hit result a confirm-point action finds is the one the most
\* recent rendered frame produced, and there is none when that frame had no
\* snapshot or no hit; a point is placed only at the position of the most
\* recent frame's hit.
C9_HitIsOfLastFrame ==
    /\ [](hitResults = frameHit)
    /\ [][(OnSelect /\ Len(points') = Len(points) + 1) =>
            (Len(frameHit) = 1 /\ points'[Len(points')] = frameHit[1].position)]_vars

\* C10: driven by app.js the helper never holds more than two points or more
\* than one segment; addPoint runs only while it holds fewer than two points,
\* and the step that places the second point turns measuring off.
C10_AtMostTwoPoints ==
    /\ [](Len(points) \in {0, 1, 2} /\ Len(lineSegments) \in {0, 1})
    /\ [][Len(points') > Len(points) =>
            /\ Len(points) < 2
            /\ (Len(points') = 2 => measuring /\ ~measuring')]_vars

C10_Witness ==
    /\ Completed
    /\ ~measuring
    /\ measureLabel = "again"
    /\ distanceValue = toFixed2(distanceTo(points[1], points[2]))

\* C11: whenever a session that startAR obtained ends, at any time after it
\* was created, its end runs dispose() (the 'end' listener is in place), and
\* a source acquired for a session that has ended has been cancelled.
C11_DisposeOnSessionEnd ==
    /\ [][SessionEnd =>
            \E c \in Starts :
                xrSession[c] = "active" /\ xrSession'[c] = "ended" /\ c \in endListener]_vars
    /\ [](\A c \in Starts :
            (xrSession[c] = "ended" /\ reqPc[c] = "ok") => cancelCount[c] = 1)

\* C12: removeLastMeasurement on a helper without points changes nothing:
\* points, markers, lineSegments and the scene stay as they are, also when
\* markers is not empty.
C12_UndoOnEmptyIsNoOp ==
    [][(RemoveLastMeasurement /\ Len(points) = 0) => UNCHANGED mhVars]_vars

C12_Witness == trace = <<"clear", "removeLastMeasurement">> /\ Idle

\* The step that places the second point of a pair.
CompletedTransition == Len(points) = 1 /\ Len(points') = 2

\* C13: the readout changes only when a pair is completed, to the distance of
\* that pair, and when the helper is cleared, to 0.00; every click that
\* clears the helper leaves the readout at 0.00.
C13_ReadoutUpdates ==
    [][/\ (StartMeasuring \/ ResetMeasuring) => distanceValue' = 0
       /\ distanceValue' # distanceValue =>
            \/ StartMeasuring \/ ResetMeasuring
            \/ /\ CompletedTransition
               /\ distanceValue' = 625 * distanceTo(points'[1], points'[2])]_vars

\* No invocation of startAR has come as far as a session attached to the
\* renderer with the hit-test request made.
NoneAttached == \A c \in Starts : arPc[c] \in {"none", "awaitSession", "awaitSetSession", "failed"}

\* C14: when requestSession or setSession fails, startAR ends with the
\* unsupported message shown and the start button disabled, enables neither
\* the measure nor the reset button, registers no 'end' listener and does not
\* start the animation loop; as long as no invocation got further than that,
\* both buttons are disabled, no listener exists and the loop is not running.
C14_StartFailureContained ==
    /\ [][(SessionRejected \/ SetSessionRejected) =>
            /\ unsupportedShown' /\ startARDisabled'
            /\ UNCHANGED <<measureDisabled, resetDisabled, endListener, animationLoop>>
            /\ \E c \in Starts : arPc'[c] = "failed" /\ arPc[c] # "failed"]_vars
    /\ [](\A c \in Starts : arPc[c] = "failed" => c \notin endListener)
    /\ [](NoneAttached =>
            measureDisabled /\ resetDisabled /\ endListener = {} /\ ~animationLoop)

C14_Witness ==
    /\ \E c \in Starts : arPc[c] = "failed" /\ xrSession[c] = "active"
    /\ unsupportedShown /\ startARDisabled
    /\ measureDisabled /\ resetDisabled /\ ~animationLoop

\* The Euclidean distance of two points on the axis, in sixteenths of a metre.
Euclidean(p1, p2) ==
    CHOOSE x \in 0..(16 * MaxCoord + 16) : x * x = (p1 - p2) * (p1 - p2)

\* C15: for the two points of a completed pair the line joins exactly those
\* points, the label shows their Euclidean distance times 100 rounded to one
\* decimal (the tenth nearest to 6.25 cm per sixteenth of a metre, the upper
\* one of two equally near; 1 m apart gives "100.0 cm"), and the readout is
\* that same distance with two decimals.
C15_DistanceAndLabel ==
    Len(points) = 2 =>
        LET d == Euclidean(points[1], points[2])
            label == markers[Len(markers)]
        IN  /\ Len(lineSegments) = 1
            /\ lineSegments[1].from = points[1] /\ lineSegments[1].to = points[2]
            /\ label.kind = "label"
            /\ 10 * label.text - 625 * d > -5
            /\ 10 * label.text - 625 * d <= 5
            /\ (d = 16 => label.text = 1000)
            /\ distanceValue = 625 * d

C15_Witness ==
    /\ Completed
    /\ Euclidean(points[1], points[2]) = 1
    /\ markers[3].text = 63
    /\ distanceValue = 625

\* The number of entries of the given kind in markers.
CountKind(kind) == Cardinality({i \in 1..Len(markers) : markers[i].kind = kind})

\* C16: on a helper holding at most two points the scene holds one marker per
\* point and one line and one label per segment, a segment existing exactly
\* while there are two points (so undoing the second point takes its marker,
\* the line and the label away, undoing the first its marker); with no points
\* nothing of the helper is in the scene.
C16_NoDanglingVisuals ==
    Len(points) <= 2 =>
        /\ scene = Ids(markers) \cup Ids(lineSegments)
        /\ CountKind("marker") = Len(points)
        /\ CountKind("label") = Len(lineSegments)
        /\ Len(lineSegments) = (IF Len(points) = 2 THEN 1 ELSE 0)
        /\ (Len(points) = 0 => scene = {})

\* C17: onSelect hands the position of the hit to addPoint only while a
\* measurement is in progress and a hit result is there; otherwise it leaves
\* points, markers, segments, the scene, measuring and the readout alone.
C17_ConfirmOnlyWhenMeasuringAndHit ==
    [][OnSelect =>
        IF measuring /\ Len(hitResults) > 0
        THEN points' = Append(points, hitResults[1].position)
        ELSE UNCHANGED <<points, markers, lineSegments, scene, measuring, distanceValue>>]_vars

C17_Witness ==
    /\ Presenting /\ measuring
    /\ Len(points) = 1 /\ Len(hitResults) = 1
    /\ points[1] = hitResults[1].position

\* C18: addPoint is not refused once two points exist: every addPoint on a
\* helper that holds a point adds one point and one segment, from the former
\* last point to the new one, so that n addPoint calls in a row on an empty
\* helper give n points and max(0, n - 1) segments.
C18_SegmentPerFurtherPoint ==
    [][AddPoint =>
        /\ Len(points') = Len(points) + 1
        /\ (Len(points) = 0 => lineSegments' = lineSegments)
        /\ (Len(points) >= 1 =>
               /\ Len(lineSegments') = Len(lineSegments) + 1
               /\ Front(lineSegments') = lineSegments
               /\ Last(lineSegments').from = Last(points)
               /\ Last(lineSegments').to = Last(points'))
        /\ (trace[2] = "addPoint" /\ Len(points) = 2 /\ Completed =>
               Len(points') = 3 /\ Len(lineSegments') = 2)]_vars

C18_Witness ==
    /\ trace = <<"addPoint", "addPoint">>
    /\ Len(points) = 3 /\ Len(lineSegments) = 2
    /\ Len(markers) = 5 /\ Cardinality(scene) = 7

\* C19: a rendered frame, with or without a snapshot, changes nothing but the
\* HitTestManager's last results: the source, the flag, and the points,
\* markers and segments already placed stay as they are.
C19_PollTouchesOnlyResults ==
    [][(RenderFrame \/ RenderNoFrame) =>
        UNCHANGED <<hitTestSource, hitTestSourceRequested, reqPc, cancelCount,
                    points, markers, lineSegments, scene>>]_vars

C19_Witness ==
    /\ hitTestSource # 0
    /\ Len(points) >= 1 /\ Len(hitResults) = 1
    /\ hitResults[1].position # points[Len(points)]

\* C20: when dispose() ran while a requestHitTestSource was awaiting and
\* that request completes next, with no new request in between, the source
\* is still absent and the flag still false afterwards.
C20_DisposeNotUndone ==
    [][(/\ trace[2] = "dispose"
        /\ \E c \in Calls : /\ reqPc[c] \in {"awaitViewerSpace", "awaitSource"}
                            /\ reqPc'[c] \in Finished)
          => (hitTestSource' = 0 /\ ~hitTestSourceRequested')]_vars

====
